---------------------------- MODULE Spec2Model ----------------------------
(***************************************************************************)
(* Model of analysis/analyse.py: the normalisation of the profiling        *)
(* dataset (lines 134-137), filter_data, plot_bar's nested-stack layout,   *)
(* create_bars' legend and the render entry points single_bench, grid and  *)
(* single_benchmark.                                                       *)
(*                                                                         *)
(* Numbers.  A raw duration is a non-negative integer (a column read by    *)
(* pd.read_csv).  A value of a float64 column after line 136, a mean, an   *)
(* offset or a width is one of                                             *)
(*     [k |-> "num", n |-> n, d |-> d]   the percentage  n / d * 100,      *)
(*     [k |-> "nan"]                     NaN,                              *)
(*     [k |-> "inf"]                     +inf,                             *)
(* with n/d in lowest terms, so that equal values are equal records.  The  *)
(* float32 cast of line 136 is modelled bit-exactly on integers (24-bit    *)
(* significand, round half to even); float64 arithmetic is modelled by     *)
(* exact rational arithmetic.                                              *)
(***************************************************************************)
EXTENDS Integers, Sequences, FiniteSets

VARIABLES
    csv,    \* the rows of results-full.csv as read at line 131 (never written)
    df,     \* the module-level DataFrame df: a sequence of rows
    pc,     \* position of the script: "loaded", "ready" (normalised), "called"
    out     \* what the call in progress has produced (figures, views)

vars == <<csv, df, pc, out>>

(***************************************************************************)
(* Bounds of the model                                                     *)
(***************************************************************************)
MaxRows == 2

(***************************************************************************)
(* Arithmetic                                                              *)
(***************************************************************************)
RECURSIVE Gcd(_, _)
Gcd(a, b) == IF b = 0 THEN a ELSE Gcd(b, a % b)

NaN == [k |-> "nan"]
Inf == [k |-> "inf"]

\* the value n / d * 100, d > 0, in lowest terms
Pct(n, d) ==
    LET g == Gcd(n, d)
    IN  [k |-> "num", n |-> n \div g, d |-> d \div g]

Zero    == Pct(0, 1)      \* the literal 0
Hundred == Pct(1, 1)      \* the literal 100

IsNum(x) == x.k = "num"
IsNaN(x) == x.k = "nan"

\* float addition: NaN is absorbing, then +inf (no value is negative)
Add(x, y) ==
    IF IsNaN(x) \/ IsNaN(y) THEN NaN
    ELSE IF ~IsNum(x) \/ ~IsNum(y) THEN Inf
    ELSE LET g == Gcd(x.d, y.d)
         IN  Pct(x.n * (y.d \div g) + y.n * (x.d \div g), (x.d \div g) * y.d)

\* x <= y on numbers (both "num")
Leq(x, y) == x.n * y.d <= y.n * x.d

MantissaBits == 24

RECURSIVE Ulp(_, _)
\* spacing of the floats around the integer v: the least power of two u with
\* v < 2^MantissaBits * u
Ulp(v, u) == IF v < (2 ^ MantissaBits) * u THEN u ELSE Ulp(v, 2 * u)

\* astype(np.float32) of a non-negative integer: round to nearest, ties to even
Float32(v) ==
    LET u == Ulp(v, 1)
        q == v \div u
        r == v % u
    IN  IF 2 * r < u THEN q * u
        ELSE IF 2 * r > u THEN (q + 1) * u
        ELSE IF q % 2 = 0 THEN q * u ELSE (q + 1) * u

\* DivTimes100 with the division guarded: 0 when total = 0
DivTimes100_guarded(x, total) ==
    IF total = 0 THEN Zero ELSE Pct(x, total)

\* (x / total) * 100 for a float32 x >= 0 and an integer total >= 0
DivTimes100(x, total) ==
    IF total = 0 THEN (IF x = 0 THEN NaN ELSE Inf)
    ELSE Pct(x, total)


\* Series.mean(): NaN entries are skipped (skipna), the mean of nothing is NaN
RECURSIVE Sum(_)
Sum(xs) == IF xs = <<>> THEN Zero ELSE Add(Sum(SubSeq(xs, 1, Len(xs) - 1)), xs[Len(xs)])

\* Mean with the mean of nothing taken to be 0
Mean_empty_is_zero(xs) ==
    LET kept == SelectSeq(xs, LAMBDA x : ~IsNaN(x))
        s    == Sum(kept)
    IN  IF kept = <<>> THEN Zero
        ELSE IF IsNum(s) THEN Pct(s.n, s.d * Len(kept))
        ELSE s

Mean(xs) ==
    LET kept == SelectSeq(xs, LAMBDA x : ~IsNaN(x))
        s    == Sum(kept)
    IN  IF kept = <<>> THEN NaN
        ELSE IF IsNum(s) THEN Pct(s.n, s.d * Len(kept))
        ELSE s

(***************************************************************************)
(* The dataset                                                             *)
(***************************************************************************)
None == "None"

Profiles  == {"Check", "Debug", "Opt"}
Scenarios == {"Full", "IncrFull", "IncrPatched0", "IncrUnchanged"}
Kinds     == {"bin", "lib"}
\* the benchmarks the script renders (lines 139-143)
Benchmarks == {"ripgrep-14.1.0", "regex-automata-0.4.6", "diesel-1.4.8"}

Sections == <<"frontend", "backend", "linker", "borrowck", "typeck", "metadata">>

Key(b, p, s, k) == [benchmark |-> b, profile |-> p, scenario |-> s, kind |-> k]

Measures(fe, be, li, bo, ty, me) ==
    [frontend |-> fe, backend |-> be, linker |-> li,
     borrowck |-> bo, typeck |-> ty, metadata |-> me]

Row(key, m) ==
    [benchmark |-> key.benchmark, profile |-> key.profile,
     scenario |-> key.scenario, kind |-> key.kind,
     frontend |-> m.frontend, backend |-> m.backend, linker |-> m.linker,
     borrowck |-> m.borrowck, typeck |-> m.typeck, metadata |-> m.metadata]

\* a duration that float32 cannot hold: 2^24 + 3 rounds to 2^24 + 4
BigDuration == 2 ^ MantissaBits + 3

MainKey == Key("ripgrep-14.1.0", "Debug", "Full", "bin")

OtherKeys ==
    { Key("ripgrep-14.1.0", "Debug", "IncrPatched0", "bin"),
      Key("diesel-1.4.8", "Debug", "Full", "lib"),
      Key("diesel-1.4.8", "Check", "IncrPatched0", "lib") }

\* the measurements rows are drawn from; the small totals are powers of two,
\* which keeps every denominator of a mean within TLC's integers
WellFormed == Measures(5, 2, 1, 2, 2, 1)

MeasurePool ==
    { WellFormed,
      Measures(2, 1, 1, 0, 1, 0),
      Measures(0, 0, 0, 0, 0, 0),                         \* total = 0
      Measures(0, 0, 0, 1, 0, 0),                         \* total = 0, malformed
      Measures(1, 1, 0, 2, 1, 0),                         \* sub-phases exceed frontend
      Measures(BigDuration, 0, 0, BigDuration, 0, 0),     \* rounds up
      Measures(BigDuration - 2, 2, 0, 0, 0, 0) }          \* rounds down

RowPool ==
    { Row(MainKey, m) : m \in MeasurePool }
    \cup { Row(k, m) : k \in OtherKeys,
                       m \in { WellFormed, Measures(0, 0, 0, 0, 0, 0) } }

Datasets == UNION { [1 .. n -> RowPool] : n \in 0 .. MaxRows }

(***************************************************************************)
(* Normalisation, lines 134-137                                            *)
(***************************************************************************)
\* Total without the linker
Total_without_linker(r) == r.frontend + r.backend

Total(r) == r.frontend + r.backend + r.linker

\* NormalizeRow with the sub-phases taken as shares of frontend
NormalizeRow_of_frontend(r) ==
    LET total == Total(r)
    IN  [r EXCEPT !.frontend = DivTimes100(Float32(r.frontend), total),
                  !.backend  = DivTimes100(Float32(r.backend), total),
                  !.linker   = DivTimes100(Float32(r.linker), total),
                  !.borrowck = DivTimes100(Float32(r.borrowck), r.frontend),
                  !.typeck   = DivTimes100(Float32(r.typeck), r.frontend),
                  !.metadata = DivTimes100(Float32(r.metadata), r.frontend)]

NormalizeRow(r) ==
    LET total == Total(r)
    IN  [r EXCEPT !.frontend = DivTimes100(Float32(r.frontend), total),
                  !.backend  = DivTimes100(Float32(r.backend), total),
                  !.linker   = DivTimes100(Float32(r.linker), total),
                  !.borrowck = DivTimes100(Float32(r.borrowck), total),
                  !.typeck   = DivTimes100(Float32(r.typeck), total),
                  !.metadata = DivTimes100(Float32(r.metadata), total)]

NormalizeFrame(data) == [i \in 1 .. Len(data) |-> NormalizeRow(data[i])]

(***************************************************************************)
(* filter_data, lines 12-20                                                *)
(***************************************************************************)
\* filter_data without its third test
filter_data_ignores_kind(data, profile, scenario, kind) ==
    LET d1 == IF profile # None
              THEN SelectSeq(data, LAMBDA r : r.profile = profile) ELSE data
        d2 == IF scenario # None
              THEN SelectSeq(d1, LAMBDA r : r.scenario = scenario) ELSE d1
    IN  d2

filter_data(data, profile, scenario, kind) ==
    LET d1 == IF profile # None
              THEN SelectSeq(data, LAMBDA r : r.profile = profile) ELSE data
        d2 == IF scenario # None
              THEN SelectSeq(d1, LAMBDA r : r.scenario = scenario) ELSE d1
        d3 == IF kind # None
              THEN SelectSeq(d2, LAMBDA r : r.kind = kind) ELSE d2
    IN  d3

\* data[data["benchmark"] == benchmark], lines 86 and 104
select_benchmark(data, benchmark) ==
    SelectSeq(data, LAMBDA r : r.benchmark = benchmark)

(***************************************************************************)
(* plot_bar, lines 33-66                                                   *)
(***************************************************************************)
\* pd.melt of one value column: one long row per row of data
MeltColumn(data, section) ==
    [i \in 1 .. Len(data) |->
        [profile |-> data[i].profile, scenario |-> data[i].scenario,
         kind |-> data[i].kind, section |-> section,
         Percent |-> data[i][section]]]

RECURSIVE melt(_, _)
\* pd.melt(data, id_vars, value_vars): the value columns stacked in order
melt(data, value_vars) ==
    IF value_vars = <<>> THEN <<>>
    ELSE MeltColumn(data, Head(value_vars)) \o melt(data, Tail(value_vars))

\* float(data[data["section"] == section]["Percent"].mean())
SectionMean(long, section) ==
    LET sel == SelectSeq(long, LAMBDA r : r.section = section)
    IN  Mean([i \in 1 .. Len(sel) |-> sel[i].Percent])

\* y and height of a bar in units of 1/2: height = 1, y_offset = 1/2,
\* inner_height = height - y_offset
FullHeight  == [y |-> 0, height |-> 2]
InnerHeight == [y |-> 1, height |-> 1]

\* plt.bar(y=..., x=[x], width=[width], color=PALETTE[color], height=...)
bar(x, width, color, layer) ==
    [x |-> x, width |-> width, color |-> color, layer |-> layer]

\* draw_bars without the second advance of fe_base (line 60)
draw_bars_no_advance(avg_backend, avg_linker, avg_borrowck, avg_typeck, avg_metadata) ==
    LET fe_base0 == Add(avg_backend, avg_linker)
        fe_base1 == Add(fe_base0, avg_borrowck)
    IN  << bar(Zero, Hundred, 0, FullHeight),
           bar(fe_base0, avg_borrowck, 3, InnerHeight),
           bar(fe_base1, avg_typeck, 4, InnerHeight),
           bar(fe_base1, avg_metadata, 5, InnerHeight),
           bar(avg_linker, avg_backend, 1, FullHeight),
           bar(Zero, avg_linker, 2, FullHeight) >>

\* draw_bars with the backend bar drawn from 0 instead of after the linker
draw_bars_backend_at_zero(avg_backend, avg_linker, avg_borrowck, avg_typeck, avg_metadata) ==
    LET fe_base0 == Add(avg_backend, avg_linker)
        fe_base1 == Add(fe_base0, avg_borrowck)
        fe_base2 == Add(fe_base1, avg_typeck)
    IN  << bar(Zero, Hundred, 0, FullHeight),
           bar(fe_base0, avg_borrowck, 3, InnerHeight),
           bar(fe_base1, avg_typeck, 4, InnerHeight),
           bar(fe_base2, avg_metadata, 5, InnerHeight),
           bar(Zero, avg_backend, 1, FullHeight),
           bar(Zero, avg_linker, 2, FullHeight) >>

\* lines 46-64: the six bars drawn from the five means, in drawing order
draw_bars(avg_backend, avg_linker, avg_borrowck, avg_typeck, avg_metadata) ==
    LET fe_base0 == Add(avg_backend, avg_linker)
        fe_base1 == Add(fe_base0, avg_borrowck)
        fe_base2 == Add(fe_base1, avg_typeck)
    IN  << bar(Zero, Hundred, 0, FullHeight),
           bar(fe_base0, avg_borrowck, 3, InnerHeight),
           bar(fe_base1, avg_typeck, 4, InnerHeight),
           bar(fe_base2, avg_metadata, 5, InnerHeight),
           bar(avg_linker, avg_backend, 1, FullHeight),
           bar(Zero, avg_linker, 2, FullHeight) >>

plot_bar(data, profile, scenario, kind) ==
    LET d    == filter_data(data, profile, scenario, kind)
        long == melt(d, Sections)
    IN  draw_bars(SectionMean(long, "backend"), SectionMean(long, "linker"),
                  SectionMean(long, "borrowck"), SectionMean(long, "typeck"),
                  SectionMean(long, "metadata"))

(***************************************************************************)
(* create_bars, lines 69-81                                                *)
(***************************************************************************)
Patch(color, label) == [color |-> color, label |-> label]

create_bars(with_metadata) ==
    LET bars == << Patch(0, "Frontend"), Patch(1, "Backend"), Patch(2, "Linker"),
                   Patch(3, "borrowck"), Patch(4, "typeck") >>
    IN  IF with_metadata THEN Append(bars, Patch(5, "metadata")) ELSE bars

(***************************************************************************)
(* Figures.  A figure is what savefig writes: its name, its axes (each     *)
(* with the bars drawn on it, in drawing order) and its legend.            *)
(***************************************************************************)
Axes(cell, drawn, bars) == [cell |-> cell, drawn |-> drawn, bars |-> bars]

Figure(name, axes, legend) == [name |-> name, axes |-> axes, legend |-> legend]

\* single_bench, lines 84-98
single_bench(data, name, benchmark, profile, scenario, metadata) ==
    LET ripgrep == select_benchmark(data, benchmark)
    IN  Figure(name,
               << Axes(<<profile, scenario>>, TRUE,
                       plot_bar(ripgrep, profile, scenario, None)) >>,
               create_bars(metadata))

row_order == <<"Check", "Debug", "Opt">>
col_order == <<"Full", "IncrFull", "IncrPatched0", "IncrUnchanged">>

\* facet_data faceting by row only
facet_data_by_row(data, row, col) ==
    SelectSeq(data, LAMBDA r : r.profile = row)

\* FacetGrid.facet_data: the rows of one facet
facet_data(data, row, col) ==
    SelectSeq(data, LAMBDA r : r.profile = row /\ r.scenario = col)

\* g.map_dataframe(plot_bar), line 109: the facets in row-major order, each
\* passed as data= with no profile, scenario or kind; seaborn moves on without
\* calling the function when a facet has no rows, and (dropna=False, its
\* default) keeps the rows that hold NaN
map_dataframe(data) ==
    [c \in 1 .. Len(row_order) * Len(col_order) |->
        LET row  == row_order[((c - 1) \div Len(col_order)) + 1]
            col  == col_order[((c - 1) % Len(col_order)) + 1]
            data_ijk == facet_data(data, row, col)
        IN  IF data_ijk = <<>>
            THEN Axes(<<row, col>>, FALSE, <<>>)
            ELSE Axes(<<row, col>>, TRUE, plot_bar(data_ijk, None, None, None))]

\* grid, lines 101-117
grid(data, name, benchmark, kind, metadata) ==
    LET d1 == IF benchmark # None THEN select_benchmark(data, benchmark) ELSE data
        d2 == IF kind # None THEN SelectSeq(d1, LAMBDA r : r.kind = kind) ELSE d1
    IN  Figure(name, map_dataframe(d2), create_bars(metadata))

\* single_benchmark, lines 120-128
single_benchmark(data, benchmark, metadata) ==
    << single_bench(data, <<benchmark, "-debug-full">>, benchmark,
                    "Debug", "Full", TRUE),
       single_bench(data, <<benchmark, "-debug-incr-patched">>, benchmark,
                    "Debug", "IncrPatched0", TRUE),
       single_bench(data, <<benchmark, "-opt-incr-patched">>, benchmark,
                    "Opt", "IncrPatched0", TRUE),
       single_bench(data, <<benchmark, "-check-incr-patched">>, benchmark,
                    "Check", "IncrPatched0", TRUE) >>

(***************************************************************************)
(* The script                                                              *)
(***************************************************************************)
Idle == [op |-> "none"]

Args(benchmark, profile, scenario, kind, metadata) ==
    [benchmark |-> benchmark, profile |-> profile, scenario |-> scenario,
     kind |-> kind, metadata |-> metadata]

Result(op, args, view, figs) ==
    [op |-> op, args |-> args, view |-> view, figs |-> figs]

OrNone(S) == S \cup {None}

\* line 131: df = pd.read_csv(...)
Init ==
    /\ csv \in Datasets
    /\ df = csv
    /\ pc = "loaded"
    /\ out = Idle

\* lines 134-137
Normalize ==
    /\ pc = "loaded"
    /\ df' = NormalizeFrame(df)
    /\ pc' = "ready"
    /\ UNCHANGED <<csv, out>>

\* CallFilterData filtering the module-level frame in place
CallFilterData_in_place(profile, scenario, kind) ==
    /\ pc = "ready"
    /\ out' = Result("filter_data", Args(None, profile, scenario, kind, None),
                     filter_data(df, profile, scenario, kind), <<>>)
    /\ df' = filter_data(df, profile, scenario, kind)
    /\ pc' = "called"
    /\ UNCHANGED csv

CallFilterData(profile, scenario, kind) ==
    /\ pc = "ready"
    /\ out' = Result("filter_data", Args(None, profile, scenario, kind, None),
                     filter_data(df, profile, scenario, kind), <<>>)
    /\ pc' = "called"
    /\ UNCHANGED <<csv, df>>

CallPlotBar(profile, scenario, kind) ==
    /\ pc = "ready"
    /\ out' = Result("plot_bar", Args(None, profile, scenario, kind, None), <<>>,
                     << Figure(None,
                               << Axes(<<profile, scenario>>, TRUE,
                                       plot_bar(df, profile, scenario, kind)) >>,
                               <<>>) >>)
    /\ pc' = "called"
    /\ UNCHANGED <<csv, df>>

CallSingleBench(benchmark, profile, scenario, metadata) ==
    /\ pc = "ready"
    /\ out' = Result("single_bench",
                     Args(benchmark, profile, scenario, None, metadata), <<>>,
                     << single_bench(df, "name", benchmark, profile, scenario,
                                     metadata) >>)
    /\ pc' = "called"
    /\ UNCHANGED <<csv, df>>

CallGrid(benchmark, kind, metadata) ==
    /\ pc = "ready"
    /\ out' = Result("grid", Args(benchmark, None, None, kind, metadata), <<>>,
                     << grid(df, "name", benchmark, kind, metadata) >>)
    /\ pc' = "called"
    /\ UNCHANGED <<csv, df>>

CallSingleBenchmark(benchmark, metadata) ==
    /\ pc = "ready"
    /\ out' = Result("single_benchmark",
                     Args(benchmark, None, None, None, metadata), <<>>,
                     single_benchmark(df, benchmark, metadata))
    /\ pc' = "called"
    /\ UNCHANGED <<csv, df>>

\* the call returns; its figures have been saved, its views are dropped
Return ==
    /\ pc = "called"
    /\ pc' = "ready"
    /\ out' = Idle
    /\ UNCHANGED <<csv, df>>

Next ==
    \/ Normalize
    \/ \E p \in OrNone(Profiles), s \in OrNone(Scenarios), k \in OrNone(Kinds) :
          CallFilterData(p, s, k)
    \/ \E p \in OrNone(Profiles), s \in OrNone(Scenarios), k \in OrNone(Kinds) :
          CallPlotBar(p, s, k)
    \/ \E b \in Benchmarks, p \in Profiles, s \in Scenarios, m \in BOOLEAN :
          CallSingleBench(b, p, s, m)
    \/ \E b \in OrNone(Benchmarks), k \in OrNone(Kinds), m \in BOOLEAN :
          CallGrid(b, k, m)
    \/ \E b \in Benchmarks, m \in BOOLEAN : CallSingleBenchmark(b, m)
    \/ Return

Spec == Init /\ [][Next]_vars

(***************************************************************************)
(* Properties                                                              *)
(***************************************************************************)
Called(op) == pc = "called" /\ out.op = op

\* the row satisfies every predicate of the call that is not None
Matches(r, a) ==
    /\ a.benchmark = None \/ r.benchmark = a.benchmark
    /\ a.profile = None \/ r.profile = a.profile
    /\ a.scenario = None \/ r.scenario = a.scenario
    /\ a.kind = None \/ r.kind = a.kind

\* the rows of df a call with arguments a is about, in their original order
Group(a) == SelectSeq(df, LAMBDA r : Matches(r, a))

\* the indices of those rows
GroupIdx(a) == { i \in 1 .. Len(df) : Matches(df[i], a) }

\* the mean of one column of a group
GroupMean(g, f) == Mean([i \in 1 .. Len(g) |-> g[i][f]])

\* the six segments of C1, from the five means
SixSegments(b, l, bo, ty, me) ==
    << [x |-> Zero, width |-> Hundred, color |-> 0, layer |-> FullHeight],
       [x |-> Add(b, l), width |-> bo, color |-> 3, layer |-> InnerHeight],
       [x |-> Add(Add(b, l), bo), width |-> ty, color |-> 4, layer |-> InnerHeight],
       [x |-> Add(Add(Add(b, l), bo), ty), width |-> me, color |-> 5,
        layer |-> InnerHeight],
       [x |-> l, width |-> b, color |-> 1, layer |-> FullHeight],
       [x |-> Zero, width |-> l, color |-> 2, layer |-> FullHeight] >>

SegmentsOf(g) ==
    SixSegments(GroupMean(g, "backend"), GroupMean(g, "linker"),
                GroupMean(g, "borrowck"), GroupMean(g, "typeck"),
                GroupMean(g, "metadata"))

\* the bars of the one axes a plot_bar or single_bench call draws on
Bars == out.figs[1].axes[1].bars

PlotCalled == Called("plot_bar") \/ Called("single_bench")

\* x + width of a bar exceeds 100
Overruns(b) ==
    LET e == Add(b.x, b.width) IN IsNum(e) /\ ~Leq(e, Hundred)

\* C1: one plot_bar call emits exactly the six segments (0, 100, palette 0,
\* full), (backend+linker, borrowck, 3, inner), (backend+linker+borrowck,
\* typeck, 4, inner), (backend+linker+borrowck+typeck, metadata, 5, inner),
\* (linker, backend, 1, full), (0, linker, 2, full), in this order, computed
\* from the group's five means without clamping, overflowing means included.
C1_SixSegmentsInOrder ==
    PlotCalled => Bars = SegmentsOf(Group(out.args))

\* a plot_bar call whose inner layer overruns the axis, drawn as it is
C1_Witness ==
    /\ Called("plot_bar")
    /\ Overruns(Bars[3])
    /\ Bars[2].width # Zero /\ Bars[3].width # Zero

\* C6: filter_data returns exactly the rows, in their original order, that
\* equal every supplied predicate value; a predicate that is None removes no
\* row, and with no predicate the result is the whole dataset.
C6_FilterConjunction ==
    Called("filter_data") =>
        /\ out.view = Group(out.args)
        /\ \A i \in 1 .. Len(out.view) : Matches(out.view[i], out.args)
        /\ Len(out.view) = Cardinality(GroupIdx(out.args))
        /\ (out.args.profile = None /\ out.args.scenario = None
            /\ out.args.kind = None) => out.view = df

\* all three predicates supplied, some rows kept and some removed
C6_Witness ==
    /\ Called("filter_data")
    /\ out.args.profile # None /\ out.args.scenario # None /\ out.args.kind # None
    /\ out.view # <<>>
    /\ Len(out.view) < Len(df)

\* C9: after any sequence of render and filter_data calls the normalised
\* dataset is unchanged: same rows, same order, same field values.
C9_DatasetUnchanged ==
    pc # "loaded" => df = NormalizeFrame(csv)

\* a call has derived a strictly smaller view and the dataset is still whole
C9_Witness ==
    /\ pc = "called"
    /\ out.op \in {"filter_data", "grid"}
    /\ Len(df) = MaxRows
    /\ \/ out.op = "filter_data" /\ Len(out.view) < Len(df)
       \/ out.op = "grid" /\ \E c \in 1 .. Len(out.figs[1].axes) :
                                 out.figs[1].axes[c].drawn

\* the five means are numbers and the inner layer ends at or before 100
ValidMeans(g) ==
    LET e == Add(Add(Add(Add(GroupMean(g, "backend"), GroupMean(g, "linker")),
                         GroupMean(g, "borrowck")), GroupMean(g, "typeck")),
                 GroupMean(g, "metadata"))
    IN  IsNum(e) /\ Leq(e, Hundred)

OuterBars(bars) == SelectSeq(bars, LAMBDA b : b.layer = FullHeight)

WidthSum(bars) == Sum([i \in 1 .. Len(bars) |-> bars[i].width])

\* C2 as stated: for any valid (non-overflowing) input the widths of the
\* full-height segments plot_bar emits sum to 100.
C2_OuterWidthsSumTo100 ==
    (PlotCalled /\ ValidMeans(Group(out.args))) =>
        WidthSum(OuterBars(Bars)) = Hundred

\* C2 amended: for any valid input the full-height segments are the
\* background (0, 100), the backend and the linker; the linker starts at 0,
\* the backend starts where the linker ends and ends, within the background,
\* where the inner layer starts; the three widths sum to
\* 100 + avg_backend + avg_linker.
C2_OuterLayerTiles ==
    (PlotCalled /\ ValidMeans(Group(out.args))) =>
        LET outer == OuterBars(Bars)
        IN  /\ outer = <<Bars[1], Bars[5], Bars[6]>>
            /\ outer[1].x = Zero /\ outer[1].width = Hundred
            /\ outer[3].x = Zero
            /\ outer[2].x = outer[3].width
            /\ Add(outer[2].x, outer[2].width) = Bars[2].x
            /\ Leq(Add(outer[2].x, outer[2].width), Hundred)
            /\ WidthSum(outer) = Add(Hundred, Add(outer[2].width, outer[3].width))

\* a valid input with a backend and a linker share
C2_Witness ==
    /\ PlotCalled /\ ValidMeans(Group(out.args))
    /\ Bars[5].width # Zero /\ Bars[6].width # Zero

\* C3 as stated: for an empty filtered group plot_bar completes and emits six
\* segments every one of which has NaN width.
C3_EmptyGroupAllNaN ==
    (PlotCalled /\ Group(out.args) = <<>>) =>
        /\ Len(Bars) = 6
        /\ \A i \in 1 .. 6 : IsNaN(Bars[i].width)

\* C3 amended: for an empty filtered group all five means are NaN and
\* plot_bar completes with six segments: the background keeps offset 0 and
\* width 100, the other five have NaN width.
C3_EmptyGroupFiveNaN ==
    (PlotCalled /\ Group(out.args) = <<>>) =>
        /\ Len(Bars) = 6
        /\ Bars[1].x = Zero /\ Bars[1].width = Hundred
        /\ \A i \in 2 .. 6 : IsNaN(Bars[i].width)

\* a render of a benchmark and profile with no rows in a dataset that has rows
C3_Witness ==
    /\ Called("single_bench")
    /\ df # <<>>
    /\ Group(out.args) = <<>>
    /\ Len(Bars) = 6

\* the raw records of the group are well formed: total > 0 and the
\* sub-phases within frontend
WellFormedGroup(a) ==
    /\ GroupIdx(a) # {}
    /\ \A i \in GroupIdx(a) :
          /\ Total(csv[i]) > 0
          /\ csv[i].borrowck + csv[i].typeck + csv[i].metadata <= csv[i].frontend

\* the percentage v is at most 100 + 1e-4
AtMost100Tol(v) == IsNum(v) /\ (v.n <= v.d \/ v.n - v.d <= v.d \div 1000000)

\* the percentage v is within 1e-4 of 100
Near100(v) ==
    /\ IsNum(v)
    /\ (IF v.n >= v.d THEN v.n - v.d ELSE v.d - v.n) <= v.d \div 1000000

\* C4 as stated: for a non-empty group of well-formed records the inner layer
\* stays inside the axis: at every step fe_base plus the width drawn at it is
\* at most 100.
C4_InnerWithin100 ==
    (PlotCalled /\ WellFormedGroup(out.args)) =>
        \A i \in 2 .. 4 : ~Overruns(Bars[i])

\* C4 amended: for a non-empty group of well-formed records, at every step
\* fe_base plus the width drawn at it is at most 100 within the 1e-4
\* tolerance (the float32 cast of line 136 may round a percentage up).
C4_InnerWithin100Tol ==
    (PlotCalled /\ WellFormedGroup(out.args)) =>
        \A i \in 2 .. 4 : AtMost100Tol(Add(Bars[i].x, Bars[i].width))

\* a well-formed group of MaxRows records whose inner layer fills part of
\* the frontend span
C4_Witness ==
    /\ PlotCalled /\ WellFormedGroup(out.args)
    /\ Cardinality(GroupIdx(out.args)) = MaxRows
    /\ Bars[2].width # Zero /\ Bars[3].width # Zero /\ Bars[4].width # Zero

OuterPercentSum(r) == Add(Add(r.frontend, r.backend), r.linker)

\* C5 as stated: for every record with total > 0 the normalised frontend,
\* backend and linker percentages sum to 100.
C5_SumIs100 ==
    pc # "loaded" =>
        \A i \in 1 .. Len(df) :
            Total(csv[i]) > 0 => OuterPercentSum(df[i]) = Hundred

\* C5 amended: for every record with total > 0 the normalised frontend,
\* backend and linker percentages sum to 100 within the 1e-4 tolerance.
C5_SumNear100 ==
    pc # "loaded" =>
        \A i \in 1 .. Len(df) :
            Total(csv[i]) > 0 => Near100(OuterPercentSum(df[i]))

\* a normalised record whose three shares are all positive, beside one whose
\* sum float32 has moved off 100
C5_Witness ==
    /\ pc # "loaded"
    /\ \E i \in 1 .. Len(df) :
          /\ Total(csv[i]) > 0
          /\ df[i].frontend # Zero /\ df[i].backend # Zero /\ df[i].linker # Zero
    /\ \E i \in 1 .. Len(df) :
          Total(csv[i]) > 0 /\ OuterPercentSum(df[i]) # Hundred

HasMetadataSwatch(legend) ==
    \E i \in 1 .. Len(legend) : legend[i].label = "metadata"

RenderCalled ==
    Called("single_bench") \/ Called("grid") \/ Called("single_benchmark")

\* C7: for every top-level render call (single_bench, grid,
\* single_benchmark) the legend has the metadata swatch if and only if the
\* call's metadata parameter is true (six entries when true, five when
\* false), and the segments are those of the layout whatever the parameter.
C7_LegendFollowsMetadata ==
    RenderCalled =>
        \A f \in 1 .. Len(out.figs) :
            /\ HasMetadataSwatch(out.figs[f].legend) <=> out.args.metadata
            /\ Len(out.figs[f].legend) = IF out.args.metadata THEN 6 ELSE 5
            /\ \A c \in 1 .. Len(out.figs[f].axes) :
                  out.figs[f].axes[c].drawn =>
                      out.figs[f].axes[c].bars =
                          SegmentsOf(Group([out.args EXCEPT
                              !.profile = out.figs[f].axes[c].cell[1],
                              !.scenario = out.figs[f].axes[c].cell[2]]))

GridAxes == out.figs[1].axes

\* the (profile, scenario) pairs of the grid
GridCells == { <<p, s>> : p \in Profiles, s \in Scenarios }

\* the rows of one cell of the grid in progress
CellRows(cell) ==
    Group([out.args EXCEPT !.profile = cell[1], !.scenario = cell[2]])

\* the rows of one cell of the grid in progress, had it been given data
CellRowsOf(data, cell) ==
    SelectSeq(data, LAMBDA r :
        Matches(r, [out.args EXCEPT !.profile = cell[1], !.scenario = cell[2]]))

\* the axes of the grid in progress, had it been given data
GridAxesOf(data) ==
    grid(data, "name", out.args.benchmark, out.args.kind, out.args.metadata).axes

\* the rows a row of the dataset is replaced by: one per key
OtherRows == { Row(k, Measures(1, 1, 0, 2, 1, 0)) : k \in {MainKey} \cup OtherKeys }

\* replacing any one row of the dataset by another row leaves the segments of
\* every cell whose own rows are the same as before
CellsIndependent ==
    \A i \in 1 .. Len(df) : \A r \in OtherRows :
        LET other == [df EXCEPT ![i] = NormalizeRow(r)]
            axes  == GridAxesOf(other)
        IN  \A c \in 1 .. 12 :
                CellRowsOf(other, GridAxes[c].cell) = CellRows(GridAxes[c].cell)
                    => axes[c] = GridAxes[c]

\* C8 as stated, for a grid whose data has rows: the render computes the
\* layout for exactly 12 cells, one per (profile, scenario) pair, even when
\* some pairs have no rows, each from the rows of that profile and scenario
\* only.
C8_TwelveCellsComputed ==
    (Called("grid") /\ Group(out.args) # <<>>) =>
        /\ Len(GridAxes) = 12
        /\ { GridAxes[c].cell : c \in 1 .. 12 } = GridCells
        /\ \A c \in 1 .. 12 :
              /\ GridAxes[c].drawn
              /\ GridAxes[c].bars = SegmentsOf(CellRows(GridAxes[c].cell))
        /\ CellsIndependent

\* C8 amended: a grid render has 12 axes, one per (profile, scenario) pair,
\* and computes the layout for exactly the pairs that have at least one row
\* (a pair with no rows gets no segments); each computed cell's segments
\* are those of the rows with that profile and scenario only.
C8_CellsWithRowsComputed ==
    Called("grid") =>
        /\ Len(GridAxes) = 12
        /\ { GridAxes[c].cell : c \in 1 .. 12 } = GridCells
        /\ \A c \in 1 .. 12 :
              LET rows == CellRows(GridAxes[c].cell)
              IN  /\ GridAxes[c].drawn <=> rows # <<>>
                  /\ GridAxes[c].bars =
                        IF rows # <<>> THEN SegmentsOf(rows) ELSE <<>>
        /\ CellsIndependent

\* a grid with two computed cells in one row whose segments differ
C8_Witness ==
    /\ Called("grid")
    /\ \E c, e \in 1 .. 12 :
          /\ c # e
          /\ GridAxes[c].cell[1] = GridAxes[e].cell[1]
          /\ GridAxes[c].drawn /\ GridAxes[e].drawn
          /\ GridAxes[c].bars # GridAxes[e].bars

\* df restricted to the records whose raw total is positive
PositiveRows(data) ==
    LET idx == { i \in 1 .. Len(data) : Total(csv[i]) > 0 }
        RECURSIVE Pick(_)
        Pick(n) == IF n = 0 THEN <<>>
                   ELSE IF n \in idx THEN Append(Pick(n - 1), data[n])
                   ELSE Pick(n - 1)
    IN  Pick(Len(data))

\* C10 as stated: normalising a dataset with a record of total = 0 does not
\* abort; that record's six fields become NaN, and every record with
\* total > 0 gets the percentages it would get without the zero-total record.
C10_ZeroTotalAllNaN ==
    pc # "loaded" =>
        /\ Len(df) = Len(csv)
        /\ \A i \in 1 .. Len(df) :
              Total(csv[i]) = 0 =>
                  \A j \in 1 .. Len(Sections) : IsNaN(df[i][Sections[j]])
        /\ PositiveRows(df) = NormalizeFrame(PositiveRows(csv))

\* C10 amended: normalising a dataset with a record of total = 0 does not
\* abort; each of that record's six fields becomes a non-finite value, NaN
\* where the raw field is 0 and +inf where it is positive (all six are NaN
\* when the sub-phases are within frontend), and every record with
\* total > 0 gets the percentages it would get without the zero-total record.
C10_ZeroTotalNonFinite ==
    pc # "loaded" =>
        /\ Len(df) = Len(csv)
        /\ \A i \in 1 .. Len(df) :
              Total(csv[i]) = 0 =>
                  \A j \in 1 .. Len(Sections) :
                      df[i][Sections[j]] =
                          IF csv[i][Sections[j]] = 0 THEN NaN ELSE Inf
        /\ PositiveRows(df) = NormalizeFrame(PositiveRows(csv))

\* a normalised dataset with a zero-total record before a record of
\* positive total
C10_Witness ==
    /\ pc = "ready"
    /\ Len(df) = 2
    /\ Total(csv[1]) = 0 /\ IsNaN(df[1].frontend)
    /\ Total(csv[2]) > 0 /\ IsNum(df[2].frontend)

=============================================================================
